---- MODULE Spec2Model ----
(***************************************************************************)
(* Model of the MCP server manager: the central registry (servers, clients *)
(* and their enabled lists), its persistence, and the projection of the    *)
(* registry into each client's JSON file with a backup before every        *)
(* overwrite.                                                              *)
(***************************************************************************)
EXTENDS Integers, Sequences, FiniteSets, TLC

(***************************************************************************)
(* Values.  A Go value held in a map[string]interface{} and a JSON value   *)
(* in a file are tagged records.  A number is (big, n): it stands for      *)
(* n when big is FALSE and for 2^53 + n when big is TRUE, so that the      *)
(* 53-bit mantissa of a float64 is part of the model.                      *)
(***************************************************************************)
Str(s) == [t |-> "str", s |-> s]
IntV(big, n) == [t |-> "int", big |-> big, n |-> n]
FloatV(big, n) == [t |-> "float", big |-> big, n |-> n]
NumJ(big, n) == [t |-> "num", big |-> big, n |-> n]
Null == [t |-> "null"]
Obj(f) == [t |-> "obj", o |-> f]
Arr(q) == [t |-> "arr", a |-> q]
EmptyMap == [k \in {} |-> Null]

\* strconv.ParseFloat as json.Unmarshal uses it for a number stored into an
\* interface{}: round to the nearest float64, ties to the even mantissa.
\* Below 2^53 every integer is exact; from 2^53 on the spacing is 2.
Float64Round(big, n) ==
    IF ~big \/ n % 2 = 0 THEN n
    ELSE IF (n \div 2) % 2 = 0 THEN 2 * (n \div 2) ELSE 2 * ((n \div 2) + 1)

RECURSIVE Marshal(_)
\* json.MarshalIndent of a Go value: integers are written digit for digit,
\* a float64 by its shortest exact representation, maps key by key.
Marshal(v) ==
    CASE v.t = "int" -> NumJ(v.big, v.n)
      [] v.t = "float" -> NumJ(v.big, v.n)
      [] v.t = "obj" -> Obj([k \in DOMAIN v.o |-> Marshal(v.o[k])])
      [] v.t = "arr" -> Arr([i \in DOMAIN v.a |-> Marshal(v.a[i])])
      [] OTHER -> v

RECURSIVE Unmarshal(_)
\* json.Unmarshal into interface{}: every number becomes a float64.
Unmarshal(j) ==
    CASE j.t = "num" -> FloatV(j.big, Float64Round(j.big, j.n))
      [] j.t = "obj" -> Obj([k \in DOMAIN j.o |-> Unmarshal(j.o[k])])
      [] j.t = "arr" -> Arr([i \in DOMAIN j.a |-> Unmarshal(j.a[i])])
      [] OTHER -> j

RECURSIVE SameValue(_, _)
\* Two Go values denote the same data: numbers compare by magnitude whatever
\* their Go type, containers element by element.
SameValue(a, b) ==
    CASE a.t \in {"int", "float"} ->
            b.t \in {"int", "float"} /\ a.big = b.big /\ a.n = b.n
      [] a.t = "obj" ->
            /\ b.t = "obj"
            /\ DOMAIN a.o = DOMAIN b.o
            /\ \A k \in DOMAIN a.o : SameValue(a.o[k], b.o[k])
      [] a.t = "arr" ->
            /\ b.t = "arr"
            /\ DOMAIN a.a = DOMAIN b.a
            /\ \A i \in DOMAIN a.a : SameValue(a.a[i], b.a[i])
      [] OTHER -> a = b

(***************************************************************************)
(* Strings of the bounded universe and the library functions on them.      *)
(***************************************************************************)
\* strings.TrimSpace on the strings of the model
TrimSpace(s) ==
    CASE s \in {"", " "} -> ""
      [] s = " echo " -> "echo"
      [] OTHER -> s

\* exec.LookPath: the commands found on the search path
PathCommands == {"echo"}

\* url.Parse on the URLs of the model: scheme and host
URLParse(u) ==
    CASE u = "https://x" -> [scheme |-> "https", host |-> "x"]
      [] u = "ftp://x" -> [scheme |-> "ftp", host |-> "x"]
      [] u = "https://" -> [scheme |-> "https", host |-> ""]
      [] OTHER -> [scheme |-> "", host |-> ""]

(***************************************************************************)
(* TransportValidator                                                      *)
(***************************************************************************)
\* an extraction that takes a blank string for a value
extractTransportValueNoTrim(config, key) ==
    IF key \notin DOMAIN config \/ config[key].t = "null" THEN ""
    ELSE IF config[key].t # "str" THEN ""
    ELSE config[key].s

extractTransportValue(config, key) ==
    IF key \notin DOMAIN config \/ config[key].t = "null" THEN ""
    ELSE IF config[key].t # "str" THEN ""
    ELSE TrimSpace(config[key].s)

TransportKeys == <<"command", "url", "httpUrl">>

\* the transports found, in the fixed order command, url, httpUrl
foundTransports(config) ==
    SelectSeq([i \in 1..3 |-> [key |-> TransportKeys[i],
                               value |-> extractTransportValue(config, TransportKeys[i])]],
              LAMBDA f : f.value # "")

validateTransportCount(found) ==
    IF Len(found) = 0 THEN [err |-> "no_transport"]
    ELSE IF Len(found) > 1 THEN [err |-> "multiple_transports", count |-> Len(found)]
    ELSE [err |-> "ok", key |-> found[1].key, value |-> found[1].value]

detectTransportType(config) == validateTransportCount(foundTransports(config))

IsCommandAvailable(command) == command \in PathCommands

validateURL(u) ==
    LET p == URLParse(u) IN
    IF p.scheme = "" THEN "url_missing_scheme"
    ELSE IF p.host = "" THEN "url_missing_host"
    ELSE IF p.scheme \notin {"http", "https"} THEN "url_bad_scheme"
    ELSE "ok"

validateTransportValue(key, value) ==
    IF key = "command"
    THEN IF IsCommandAvailable(value) THEN "ok" ELSE "command_not_found"
    ELSE validateURL(value)

\* only a Go int is inspected: the assertion timeout.(int) fails for a float64
validateTimeout(config) ==
    IF /\ "timeout" \in DOMAIN config
       /\ config["timeout"].t = "int"
       /\ ~config["timeout"].big
       /\ config["timeout"].n < 0
    THEN "negative_timeout" ELSE "ok"

\* strings.Contains(key, "=") on the keys of the model
KeysWithEquals == {"A=B"}

validateEnvironmentVariables(config) ==
    IF "env" \notin DOMAIN config \/ config["env"].t # "obj" THEN "ok"
    ELSE LET env == config["env"].o IN
         IF \E k \in DOMAIN env : TrimSpace(k) = "" THEN "empty_env_key"
         ELSE IF \E k \in DOMAIN env : k \in KeysWithEquals THEN "env_key_contains_equals"
         ELSE IF \E k \in DOMAIN env : env[k].t # "str" \/ TrimSpace(env[k].s) = ""
              THEN "empty_env_value"
              ELSE "ok"

ValidateMCPServerConfig(serverName, config) ==
    IF TrimSpace(serverName) = "" THEN "empty_name"
    ELSE LET d == detectTransportType(config) IN
         IF d.err # "ok" THEN d.err
         ELSE IF validateTransportValue(d.key, d.value) # "ok"
              THEN validateTransportValue(d.key, d.value)
              ELSE IF validateTimeout(config) # "ok" THEN validateTimeout(config)
                   ELSE validateEnvironmentVariables(config)

\* ValidateClientConfig on the mcpServers map of a client blob: entries that
\* are not maps are skipped, the others need exactly one transport
ValidateClientConfig(mcpServers) ==
    IF \E name \in DOMAIN mcpServers : TrimSpace(name) = "" THEN "empty_name"
    ELSE IF \E name \in DOMAIN mcpServers :
               /\ mcpServers[name].t = "obj"
               /\ detectTransportType(mcpServers[name].o).err # "ok"
         THEN "invalid_entry"
         ELSE "ok"

ValidateClient(clientName, client) ==
    IF TrimSpace(clientName) = "" THEN "empty_client_name"
    ELSE IF client.configPath = "" THEN "empty_config_path"
    ELSE "ok"

\* the orders in which a range over a Go map may visit the set S
Orders(S) == {q \in [1..Cardinality(S) -> S] : \A x \in S : \E i \in DOMAIN q : q[i] = x}

RECURSIVE validateClientsIn(_, _)
\* a client loop that reports the first enabled name of the client instead
\* of the missing one
validateClientsInFirstName(reg, co) ==
    IF co = <<>> THEN [err |-> "ok"]
    ELSE LET c == Head(co)
             missing == SelectSeq(reg.clients[c].enabled,
                                  LAMBDA n : n \notin DOMAIN reg.servers)
         IN IF ValidateClient(c, reg.clients[c]) # "ok"
            THEN [err |-> "invalid_client", client |-> c]
            ELSE IF missing # <<>>
            THEN [err |-> "dangling_reference", client |-> c,
                  server |-> Head(reg.clients[c].enabled)]
            ELSE validateClientsIn(reg, Tail(co))

\* the client loop of ValidateConfig visiting the clients in the order co:
\* each client is validated and then its enabled names are looked up
validateClientsIn(reg, co) ==
    IF co = <<>> THEN [err |-> "ok"]
    ELSE LET c == Head(co)
             missing == SelectSeq(reg.clients[c].enabled,
                                  LAMBDA n : n \notin DOMAIN reg.servers)
         IN IF ValidateClient(c, reg.clients[c]) # "ok"
            THEN [err |-> "invalid_client", client |-> c]
            ELSE IF missing # <<>>
            THEN [err |-> "dangling_reference", client |-> c, server |-> Head(missing)]
            ELSE validateClientsIn(reg, Tail(co))

\* whole-registry validation when the range over the clients visits them in
\* the order co; reg is [port, servers, clients]
ValidateConfigIn(reg, co) ==
    IF reg.port < 1 \/ reg.port > 65535 THEN [err |-> "invalid_port"]
    ELSE IF DOMAIN reg.servers = {} THEN [err |-> "no_servers"]
    ELSE IF DOMAIN reg.clients = {} THEN [err |-> "no_clients"]
    ELSE IF \E s \in DOMAIN reg.servers : ValidateMCPServerConfig(s, reg.servers[s]) # "ok"
         THEN [err |-> "invalid_server"]
    ELSE validateClientsIn(reg, co)

\* whether whole-registry validation passes: the loop over the clients ends
\* without an error exactly when no client has one, whatever the order of
\* the visit; only the error reported depends on the order
ValidateConfig(reg) ==
    LET co == CHOOSE q \in Orders(DOMAIN reg.clients) : TRUE
    IN IF ValidateConfigIn(reg, co).err = "ok" THEN "ok" ELSE "invalid"

(***************************************************************************)
(* Bounds and the input universe                                           *)
(***************************************************************************)
\* the clock counts seconds 0..MaxTime (the resolution of a backup's name)
MaxTime == 1
\* the number of calls made to the manager in one behaviour
MaxOps == 2

ClientNames == {"c1", "c2"}
\* the (client, server, enabled) arguments of a toggle: both servers for the
\* first client, one enable for the second, and an unknown client with a known
\* and an unknown server
ToggleInputs == ({"c1"} \X {"s1", "s2"} \X BOOLEAN)
                \cup {<<"c2", "s1", TRUE>>, <<"cx", "s1", TRUE>>, <<"cx", "sx", TRUE>>}
\* the names of an add: one that sorts before every server of the registry,
\* the two server names, and a blank one
AddNames == {"s0", "s1", "s2", " "}

\* faults of the file system during one projection
\* at most one fault per call: of the registry's save, or of one step of
\* the projection (read, backup copy, mkdir, write cut short)
Faults == {"ok", "save", "read", "backup", "mkdir", "trunc"}
SaveFault(fault) == IF fault = "save" THEN "fail" ELSE "ok"
IOFault(fault) == IF fault = "save" THEN "ok" ELSE fault
\* the calls of a toggle: the faults strike the enable of the first server
\* for the first client
ToggleCalls == {call \in ToggleInputs \X Faults :
                   call[2] = "ok" \/ call[1] = <<"c1", "s1", TRUE>>}
\* the fault one update of a sync may meet: the write is refused
SyncFaults == {"write"}
\* the update of a sync of n updates the fault strikes: none, the first or
\* the last
SyncFailAt(n) == {0, 1, n}

\* registry configs as the YAML loader decodes them (integers are Go ints)
CfgEcho == ("command" :> Str("echo") @@ "args" :> Arr(<<Str("hi")>>))
CfgHttp == ("type" :> Str("http") @@ "url" :> Str("https://x") @@ "custom" :> Str("v")
            @@ "nested" :> Obj("a" :> IntV(FALSE, 1)) @@ "seed" :> IntV(TRUE, 1))
CfgNoCmd == ("command" :> Str("nope"))
\* configs as the HTTP layer decodes them from JSON (numbers are float64)
CfgApi == ("httpUrl" :> Str("https://x") @@ "timeout" :> FloatV(FALSE, 30))
AddConfigs == {CfgApi, CfgNoCmd}
\* the calls of an add: the registry's save fails for the new valid server,
\* and the name that sorts first comes with the valid config
AddCalls == {call \in AddNames \X AddConfigs \X {"ok", "fail"} :
                /\ call[3] = "ok" \/ (call[1] = "s2" /\ call[2] = CfgApi)
                /\ call[1] = "s0" => call[2] = CfgApi}

(***************************************************************************)
(* Files.  A file is missing, unparseable, or JSON text; canon tells the   *)
(* layout json.MarshalIndent produces from any other layout of the bytes.  *)
(***************************************************************************)
Missing == [k |-> "missing"]
Garbage == [k |-> "garbage"]
JsonFile(canon, v) == [k |-> "json", canon |-> canon, v |-> v]

FileForeign == JsonFile(FALSE, Obj("mcpServers" :> Obj(EmptyMap) @@ "theme" :> Str("dark")
                                   @@ "id" :> NumJ(TRUE, 1)))
FileStale == JsonFile(FALSE, Obj("mcpServers" :> Obj("old" :> Obj("command" :> Str("x"))
                                                     @@ "s1" :> Obj("command" :> Str("stale")))))
FileNoSection == JsonFile(FALSE, Obj("mcpServers" :> Str("oops") @@ "theme" :> Str("dark")))
FileNull == JsonFile(FALSE, Null)
FileArray == JsonFile(FALSE, Arr(<<>>))
\* a hand-edited file: an entry without a transport field
FileHandEdited == JsonFile(FALSE, Obj("mcpServers" :> Obj("bad" :> Obj("args" :> Arr(<<Str("x")>>)))))
InitFiles == {Missing, Garbage, FileForeign, FileStale, FileNoSection, FileNull, FileArray,
              FileHandEdited}

VARIABLES
    port,       \* Config.ServerPort
    servers,    \* Config.MCPServers: name -> config map
    clients,    \* Config.Clients: name -> [configPath, enabled]
    saved,      \* the registry file written by SaveConfig, or NotSaved
    file,       \* the file at each client's config path
    backups,    \* per client: timestamp -> the file <path>.backup.<timestamp>
    now,        \* the wall clock in seconds
    ops,        \* the number of calls made so far
    last,       \* the last call and what it returned
    inflight    \* the calls in progress when calls overlap: position, blob read

vars == <<port, servers, clients, saved, file, backups, now, ops, last, inflight>>

\* no call is in progress: every handler runs from start to end on its own
NoCalls == <<>>

NotSaved == [k |-> "none"]
Registry == [port |-> port, servers |-> servers, clients |-> clients]
Call(op, c, s, e, res) == [op |-> op, c |-> c, s |-> s, e |-> e, res |-> res]

(***************************************************************************)
(* ClientProjector                                                         *)
(***************************************************************************)
\* a read that takes an unparseable file for an empty one
ReadClientConfigLenient(f, io) ==
    IF f.k \in {"missing", "garbage"}
    THEN [res |-> "ok", raw |-> ("mcpServers" :> Obj(EmptyMap))]
    ELSE IF io = "read" THEN [res |-> "read_error"]
    ELSE IF f.v.t = "null" THEN [res |-> "panic"]
    ELSE IF f.v.t # "obj" THEN [res |-> "parse_error"]
    ELSE LET raw == Unmarshal(f.v).o IN
         IF "mcpServers" \notin DOMAIN raw \/ raw["mcpServers"].t = "null"
         THEN [res |-> "ok",
               raw |-> [k \in DOMAIN raw \cup {"mcpServers"} |->
                           IF k = "mcpServers" THEN Obj(EmptyMap) ELSE raw[k]]]
         ELSE [res |-> "ok", raw |-> raw]

\* the blob ReadClientConfig returns for the content f of the client's file
ReadClientConfig(f, io) ==
    IF f.k = "missing" THEN [res |-> "ok", raw |-> ("mcpServers" :> Obj(EmptyMap))]
    ELSE IF io = "read" THEN [res |-> "read_error"]
    ELSE IF f.k = "garbage" THEN [res |-> "parse_error"]
    ELSE IF f.v.t = "null" THEN [res |-> "panic"]
    ELSE IF f.v.t # "obj" THEN [res |-> "parse_error"]
    ELSE LET raw == Unmarshal(f.v).o IN
         IF "mcpServers" \notin DOMAIN raw \/ raw["mcpServers"].t = "null"
         THEN [res |-> "ok",
               raw |-> [k \in DOMAIN raw \cup {"mcpServers"} |->
                           IF k = "mcpServers" THEN Obj(EmptyMap) ELSE raw[k]]]
         ELSE [res |-> "ok", raw |-> raw]

\* backupConfig: nothing to do without a file, else copy the bytes to the
\* backup named by the current second
backupConfig(f, b, t, io) ==
    IF f.k = "missing" THEN [res |-> "ok", backups |-> b]
    ELSE IF io = "backup" THEN [res |-> "backup_error", backups |-> b]
    ELSE [res |-> "ok", backups |-> [b EXCEPT ![t] = f]]

\* a write that takes the backup only after the new bytes are on disk
WriteClientConfigBackupLast(path, f, b, t, raw, io) ==
    LET new == JsonFile(TRUE, Marshal(Obj(raw)))
        bk == backupConfig(new, b, t, io)
    IN IF io = "mkdir" THEN [res |-> "mkdir_error", file |-> f, backups |-> b]
       ELSE IF io = "write" \/ path = "" THEN [res |-> "write_error", file |-> f, backups |-> b]
       ELSE IF io = "trunc" THEN [res |-> "write_error", file |-> Garbage, backups |-> b]
       ELSE IF bk.res # "ok" THEN [res |-> "backup_error", file |-> new, backups |-> b]
       ELSE [res |-> "ok", file |-> new, backups |-> bk.backups]

\* a write that reports a failed backup only after writing the new bytes
WriteClientConfigLateError(path, f, b, t, raw, io) ==
    LET bk == backupConfig(f, b, t, io) IN
    IF io = "mkdir" THEN [res |-> "mkdir_error", file |-> f, backups |-> bk.backups]
    ELSE IF io = "write" \/ path = ""
         THEN [res |-> "write_error", file |-> f, backups |-> bk.backups]
    ELSE IF io = "trunc"
         THEN [res |-> "write_error", file |-> Garbage, backups |-> bk.backups]
    ELSE [res |-> IF bk.res # "ok" THEN "backup_error" ELSE "ok",
          file |-> JsonFile(TRUE, Marshal(Obj(raw))), backups |-> bk.backups]

\* WriteClientConfig on the client's path: backup, mkdir, marshal, write
WriteClientConfig(path, f, b, t, raw, io) ==
    LET bk == backupConfig(f, b, t, io) IN
    IF bk.res # "ok" THEN [res |-> "backup_error", file |-> f, backups |-> b]
    ELSE IF io = "mkdir" THEN [res |-> "mkdir_error", file |-> f, backups |-> bk.backups]
    ELSE IF io = "write" \/ path = ""
         THEN [res |-> "write_error", file |-> f, backups |-> bk.backups]
    ELSE IF io = "trunc"
         THEN [res |-> "write_error", file |-> Garbage, backups |-> bk.backups]
    ELSE [res |-> "ok", file |-> JsonFile(TRUE, Marshal(Obj(raw))), backups |-> bk.backups]

\* a copy that keeps only the fields of a fixed schema
CopyConfigAllowList(serverConfig) ==
    [k \in DOMAIN serverConfig \cap {"command", "args", "url", "httpUrl", "env", "headers"}
        |-> serverConfig[k]]

\* the copy of a server's config placed in the blob: every key, no filter
CopyConfig(serverConfig) == [k \in DOMAIN serverConfig |-> serverConfig[k]]

\* the blob raw after UpdateMCPServerStatus has set or deleted the entry of s
\* in its mcpServers section
SetEntry(reg, raw, s, e) ==
    LET old == IF raw["mcpServers"].t = "obj" THEN raw["mcpServers"].o ELSE EmptyMap
        new == IF e
               THEN [k \in DOMAIN old \cup {s} |->
                        IF k = s THEN Obj(CopyConfig(reg.servers[s])) ELSE old[k]]
               ELSE [k \in DOMAIN old \ {s} |-> old[k]]
    IN [raw EXCEPT !["mcpServers"] = Obj(new)]

\* UpdateMCPServerStatus against registry reg, for the file content f and the
\* backups b of client c at second t
UpdateMCPServerStatus(reg, f, b, t, c, s, e, io) ==
    IF c \notin DOMAIN reg.clients
    THEN [res |-> "client_not_found", file |-> f, backups |-> b]
    ELSE LET rd == ReadClientConfig(f, io) IN
         IF rd.res # "ok" THEN [res |-> rd.res, file |-> f, backups |-> b]
         ELSE LET raw == SetEntry(reg, rd.raw, s, e)
              IN IF e /\ s \notin DOMAIN reg.servers
                 THEN [res |-> "server_not_found", file |-> f, backups |-> b]
                 ELSE WriteClientConfig(reg.clients[c].configPath, f, b, t, raw, io)

\* GetMCPServerStatus for the file content f
GetMCPServerStatus(f) ==
    LET rd == ReadClientConfig(f, "ok") IN
    IF rd.res # "ok" THEN [res |-> rd.res]
    ELSE [res |-> "ok", names |-> IF rd.raw["mcpServers"].t = "obj"
                                  THEN DOMAIN rd.raw["mcpServers"].o ELSE {}]

(***************************************************************************)
(* SyncOrchestrator                                                        *)
(***************************************************************************)
\* a toggle whose enable forgets to add the name
ToggleEnabledNoAppend(enabled, s, e) ==
    IF e THEN enabled ELSE SelectSeq(enabled, LAMBDA n : n # s)

\* a toggle whose enable appends without looking for the name
ToggleEnabledAlwaysAppend(enabled, s, e) ==
    IF e THEN Append(enabled, s) ELSE SelectSeq(enabled, LAMBDA n : n # s)

\* the enabled list after the toggle: append when absent, or drop every
\* occurrence
ToggleEnabled(enabled, s, e) ==
    IF e
    THEN IF \E i \in DOMAIN enabled : enabled[i] = s THEN enabled ELSE Append(enabled, s)
    ELSE SelectSeq(enabled, LAMBDA n : n # s)

\* a save that skips the validation
saveConfigUnchecked(reg, sio) ==
    IF sio = "fail" THEN [res |-> "save_error", saved |-> saved]
    ELSE [res |-> "ok", saved |-> reg]

\* saveConfig: validate the whole registry, then write it
saveConfig(reg, sio) ==
    IF ValidateConfig(reg) # "ok" THEN [res |-> "validation_failed", saved |-> saved]
    ELSE IF sio = "fail" THEN [res |-> "save_error", saved |-> saved]
    ELSE [res |-> "ok", saved |-> reg]

\* a lookup that finds every name
serverExistsAlways(s) == TRUE

\* the lookup of a server name in the registry
serverExists(s) == s \in DOMAIN servers

\* a toggle that restores the enabled list when the save fails
ToggleClientMCPServerRollback(c, s, e, sio, io) ==
    /\ ops < MaxOps
    /\ ops' = ops + 1
    /\ IF c \notin DOMAIN clients
       THEN /\ last' = Call("toggle", c, s, e, "client_not_found")
            /\ UNCHANGED <<port, servers, clients, saved, file, backups, now>>
       ELSE IF ~serverExists(s)
       THEN /\ last' = Call("toggle", c, s, e, "server_not_found")
            /\ UNCHANGED <<port, servers, clients, saved, file, backups, now>>
       ELSE LET cl == [clients EXCEPT ![c].enabled = ToggleEnabled(@, s, e)]
                reg == [port |-> port, servers |-> servers, clients |-> cl]
                sv == saveConfig(reg, sio)
                up == UpdateMCPServerStatus(reg, file[c], backups[c], now, c, s, e, io)
            IN /\ saved' = sv.saved
               /\ IF sv.res # "ok"
                  THEN /\ last' = Call("toggle", c, s, e, sv.res)
                       /\ UNCHANGED <<clients, file, backups>>
                  ELSE /\ last' = Call("toggle", c, s, e, up.res)
                       /\ clients' = cl
                       /\ file' = [file EXCEPT ![c] = up.file]
                       /\ backups' = [backups EXCEPT ![c] = up.backups]
               /\ UNCHANGED <<port, servers, now>>

ToggleClientMCPServer(c, s, e, sio, io) ==
    /\ ops < MaxOps
    /\ ops' = ops + 1
    /\ IF c \notin DOMAIN clients
       THEN /\ last' = Call("toggle", c, s, e, "client_not_found")
            /\ UNCHANGED <<port, servers, clients, saved, file, backups, now>>
       ELSE IF ~serverExists(s)
       THEN /\ last' = Call("toggle", c, s, e, "server_not_found")
            /\ UNCHANGED <<port, servers, clients, saved, file, backups, now>>
       ELSE LET cl == [clients EXCEPT ![c].enabled = ToggleEnabled(@, s, e)]
                reg == [port |-> port, servers |-> servers, clients |-> cl]
                sv == saveConfig(reg, sio)
                up == UpdateMCPServerStatus(reg, file[c], backups[c], now, c, s, e, io)
            IN /\ clients' = cl
               /\ saved' = sv.saved
               /\ IF sv.res # "ok"
                  THEN /\ last' = Call("toggle", c, s, e, sv.res)
                       /\ UNCHANGED <<file, backups>>
                  ELSE /\ last' = Call("toggle", c, s, e, up.res)
                       /\ file' = [file EXCEPT ![c] = up.file]
                       /\ backups' = [backups EXCEPT ![c] = up.backups]
               /\ UNCHANGED <<port, servers, now>>

\* an add that puts the server into the registry before validating it
AddServerMutateFirst(name, config, sio) ==
    /\ ops < MaxOps
    /\ ops' = ops + 1
    /\ servers' = (name :> config) @@ servers
    /\ IF ValidateMCPServerConfig(name, config) # "ok"
       THEN /\ last' = Call("add", "", name, FALSE, "server_validation_failed")
            /\ UNCHANGED <<port, clients, saved, file, backups, now>>
       ELSE LET sv == saveConfig([port |-> port, servers |-> (name :> config) @@ servers,
                                  clients |-> clients], sio)
            IN /\ saved' = sv.saved
               /\ last' = Call("add", "", name, FALSE, sv.res)
               /\ UNCHANGED <<port, clients, file, backups, now>>

AddServer(name, config, sio) ==
    /\ ops < MaxOps
    /\ ops' = ops + 1
    /\ IF ValidateMCPServerConfig(name, config) # "ok"
       THEN /\ last' = Call("add", "", name, FALSE, "server_validation_failed")
            /\ UNCHANGED <<port, servers, clients, saved, file, backups, now>>
       ELSE IF name \in DOMAIN servers
       THEN /\ last' = Call("add", "", name, FALSE, "duplicate_name")
            /\ UNCHANGED <<port, servers, clients, saved, file, backups, now>>
       ELSE LET sv == saveConfig([port |-> port, servers |-> (name :> config) @@ servers,
                                  clients |-> clients], sio)
            IN /\ servers' = (name :> config) @@ servers
               /\ saved' = sv.saved
               /\ last' = Call("add", "", name, FALSE, sv.res)
               /\ UNCHANGED <<port, clients, file, backups, now>>

RECURSIVE Flatten(_, _)
\* the client/server pairs in visiting order: clients in order co, the
\* servers of client c in order so[c]
Flatten(co, so) ==
    IF co = <<>> THEN <<>>
    ELSE [i \in DOMAIN so[Head(co)] |-> [c |-> Head(co), s |-> so[Head(co)][i]]]
         \o Flatten(Tail(co), so)

RECURSIVE SyncFrom(_, _, _, _)
\* a loop that goes on with the later pairs after a failed update and
\* returns the first error at the end
SyncFromContinue(st, pairs, i, plan) ==
    IF i > Len(pairs) THEN [res |-> "ok", c |-> "", st |-> st, n |-> i - 1]
    ELSE LET c == pairs[i].c
             s == pairs[i].s
             e == \E j \in DOMAIN clients[c].enabled : clients[c].enabled[j] = s
             up == UpdateMCPServerStatus(Registry, st.file[c], st.backups[c], now, c, s, e,
                                         IF plan.failAt = i THEN plan.io ELSE "ok")
             nx == [file |-> [st.file EXCEPT ![c] = up.file],
                    backups |-> [st.backups EXCEPT ![c] = up.backups]]
             rest == SyncFrom(nx, pairs, i + 1, plan)
         IN IF up.res # "ok" THEN [res |-> up.res, c |-> c, st |-> rest.st, n |-> i]
            ELSE rest

\* the loop of SyncAllClients from pair i on, all within the second now; st
\* is [file, backups]; plan tells which update meets which I/O fault; n is
\* the number of updates called
SyncFrom(st, pairs, i, plan) ==
    IF i > Len(pairs) THEN [res |-> "ok", c |-> "", st |-> st, n |-> i - 1]
    ELSE LET c == pairs[i].c
             s == pairs[i].s
             e == \E j \in DOMAIN clients[c].enabled : clients[c].enabled[j] = s
             up == UpdateMCPServerStatus(Registry, st.file[c], st.backups[c], now, c, s, e,
                                         IF plan.failAt = i THEN plan.io ELSE "ok")
             nx == [file |-> [st.file EXCEPT ![c] = up.file],
                    backups |-> [st.backups EXCEPT ![c] = up.backups]]
         IN IF up.res # "ok" THEN [res |-> up.res, c |-> c, st |-> nx, n |-> i]
            ELSE SyncFrom(nx, pairs, i + 1, plan)

\* SyncAllClients ranging over the clients in the order co and over the
\* servers in the order so; when it fails, last keeps the updates it called,
\* in order (one that succeeds has called them all)
SyncAllClients(co, so, plan) ==
    LET pairs == Flatten(co, [c \in DOMAIN clients |-> so])
        r == SyncFrom([file |-> file, backups |-> backups], pairs, 1, plan)
    IN /\ ops < MaxOps
       /\ ops' = ops + 1
       /\ file' = r.st.file
       /\ backups' = r.st.backups
       /\ last' = [op |-> "sync", c |-> r.c, s |-> "", e |-> FALSE, res |-> r.res,
                   visit |-> IF r.res = "ok" THEN <<>> ELSE SubSeq(pairs, 1, r.n)]
       /\ UNCHANGED <<port, servers, clients, saved, now>>

\* the byte order of the server names of the model
NameRank(n) ==
    CASE n = " " -> 0
      [] n = "s0" -> 1
      [] n = "s1" -> 2
      [] n = "s2" -> 3
      [] OTHER -> 4

\* the order of the mcpServers keys in the file yaml.Marshal writes for the
\* map m, which is the order a reload of the file sees: sorted by key
YamlKeyOrder(m) ==
    CHOOSE q \in Orders(DOMAIN m) :
        \A i, j \in DOMAIN q : i < j => NameRank(q[i]) < NameRank(q[j])

\* the orders in which the range over the servers map visits them in a sync:
\* of all the orders Go may pick, the ascending and the descending one
ServerOrders(m) ==
    LET q == YamlKeyOrder(m) IN {q, [i \in DOMAIN q |-> q[Len(q) + 1 - i]]}

\* a second passes between two calls; the clock starts at the first call.
\* The clock only names the backups, so a second in which none was written
\* is not told apart from the next one.
Tick ==
    /\ now < MaxTime
    /\ 0 < ops /\ ops < MaxOps
    /\ \E c \in DOMAIN backups : backups[c][now] # Missing
    /\ now' = now + 1
    /\ UNCHANGED <<port, servers, clients, saved, file, backups, ops, last, inflight>>

(***************************************************************************)
(* Initial states: what LoadConfig can return (it does not validate) and   *)
(* what the clients' files can hold before the manager touches them.       *)
(***************************************************************************)
InitReg(p, m, en, path) ==
    [port |-> p, servers |-> ("s1" :> CfgEcho) @@ m,
     clients |-> ("c1" :> [configPath |-> "/c1.json", enabled |-> en]
                  @@ "c2" :> [configPath |-> path, enabled |-> <<>>])]

\* registries that pass whole-registry validation
ValidRegistries ==
    {InitReg(6543, EmptyMap, <<>>, "/c2.json"),
     InitReg(6543, "s2" :> CfgHttp, <<"s1">>, "/c2.json")}

\* registries that fail it: port, a command not on the path, a dangling
\* enabled name, an empty config path
InvalidRegistries ==
    {InitReg(70000, EmptyMap, <<>>, "/c2.json"),
     InitReg(6543, "s2" :> CfgNoCmd, <<>>, "/c2.json"),
     InitReg(6543, EmptyMap, <<"sx">>, "/c2.json"),
     InitReg(6543, EmptyMap, <<>>, "")}

\* a valid registry whose first client has the HTTP server enabled
RegistryHttpEnabled == InitReg(6543, "s2" :> CfgHttp, <<"s2">>, "/c2.json")

InitScenarios ==
    (ValidRegistries \X InitFiles) \cup (InvalidRegistries \X {FileForeign})
    \cup {<<RegistryHttpEnabled, Missing>>}

Init ==
    /\ \E sc \in InitScenarios :
          /\ port = sc[1].port
          /\ servers = sc[1].servers
          /\ clients = sc[1].clients
          /\ file = ("c1" :> sc[2] @@ "c2" :> Missing)
    /\ saved = NotSaved
    /\ backups = [c \in ClientNames |-> [t \in 0..MaxTime |-> Missing]]
    /\ now = 0
    /\ ops = 0
    /\ last = Call("init", "", "", FALSE, "ok")
    /\ inflight = NoCalls

Next ==
    \/ \E call \in ToggleCalls :
          /\ ToggleClientMCPServer(call[1][1], call[1][2], call[1][3],
                                   SaveFault(call[2]), IOFault(call[2]))
          /\ UNCHANGED inflight
    \/ \E call \in AddCalls :
          /\ AddServer(call[1], call[2], call[3])
          /\ UNCHANGED inflight
    \/ \E co \in Orders(DOMAIN clients), so \in ServerOrders(servers) :
       \E failAt \in SyncFailAt(Cardinality(DOMAIN clients) * Cardinality(DOMAIN servers)) :
       \E io \in (IF failAt = 0 THEN {"ok"} ELSE SyncFaults) :
          /\ SyncAllClients(co, so, [failAt |-> failAt, io |-> io])
          /\ UNCHANGED inflight
    \/ Tick

Spec == Init /\ [][Next]_vars

(***************************************************************************)
(* Two overlapping calls.  Each request is served on its own goroutine and *)
(* neither the handler nor the services take a lock, so two                *)
(* ToggleClientMCPServer calls for one client interleave at every access   *)
(* to the shared enabled list, the registry file and the client's file.    *)
(* inflight holds, per call, its position, its arguments, the enabled list *)
(* it has read and the blob it has read.                                   *)
(***************************************************************************)
ConcurrentClient == "c1"

\* the registries the two calls start from: both servers known
ConcurrentRegistries ==
    {InitReg(6543, "s2" :> CfgHttp, en, "/c2.json") :
        en \in {<<>>, <<"s1">>, <<"s2">>, <<"s1", "s2">>}}

ConcurrentFiles == {Missing, Garbage, FileForeign, FileStale}

Pending(s, e) ==
    [pc |-> "start", s |-> s, e |-> e, list |-> <<>>, raw |-> EmptyMap, res |-> ""]

ConcurrentInit ==
    /\ \E reg \in ConcurrentRegistries, f \in ConcurrentFiles :
          /\ port = reg.port
          /\ servers = reg.servers
          /\ clients = reg.clients
          /\ file = ("c1" :> f @@ "c2" :> Missing)
    /\ \E e1 \in BOOLEAN, e2 \in BOOLEAN :
          inflight = <<Pending("s1", e1), Pending("s2", e2)>>
    /\ saved = NotSaved
    /\ backups = [c \in ClientNames |-> [t \in 0..MaxTime |-> Missing]]
    /\ now = 0
    /\ ops = 0
    /\ last = Call("init", "", "", FALSE, "ok")

\* call i returns res
Return(i, res) ==
    /\ inflight' = [inflight EXCEPT ![i].pc = "done", ![i].res = res]
    /\ ops' = ops + 1
    /\ last' = Call("toggle", ConcurrentClient, inflight[i].s, inflight[i].e, res)

\* the two lookups, then the loop that reads client.Enabled
TogBegin(i) ==
    /\ inflight[i].pc = "start"
    /\ IF ConcurrentClient \notin DOMAIN clients
       THEN Return(i, "client_not_found")
       ELSE IF ~serverExists(inflight[i].s)
       THEN Return(i, "server_not_found")
       ELSE /\ inflight' = [inflight EXCEPT ![i].pc = "mutate",
                                            ![i].list = clients[ConcurrentClient].enabled]
            /\ UNCHANGED <<ops, last>>
    /\ UNCHANGED <<port, servers, clients, saved, file, backups, now>>

\* the assignment to client.Enabled of the list computed from the one read
TogMutate(i) ==
    /\ inflight[i].pc = "mutate"
    /\ clients' = [clients EXCEPT ![ConcurrentClient].enabled =
                      ToggleEnabled(inflight[i].list, inflight[i].s, inflight[i].e)]
    /\ inflight' = [inflight EXCEPT ![i].pc = "save"]
    /\ UNCHANGED <<port, servers, saved, file, backups, now, ops, last>>

\* saveConfig on the registry as it is now
TogSave(i) ==
    /\ inflight[i].pc = "save"
    /\ LET sv == saveConfig(Registry, "ok") IN
          /\ saved' = sv.saved
          /\ IF sv.res # "ok"
             THEN Return(i, sv.res)
             ELSE /\ inflight' = [inflight EXCEPT ![i].pc = "read"]
                  /\ UNCHANGED <<ops, last>>
    /\ UNCHANGED <<port, servers, clients, file, backups, now>>

\* the ReadClientConfig at the head of UpdateMCPServerStatus
TogRead(i) ==
    /\ inflight[i].pc = "read"
    /\ LET rd == ReadClientConfig(file[ConcurrentClient], "ok") IN
          IF rd.res # "ok"
          THEN Return(i, rd.res)
          ELSE /\ inflight' = [inflight EXCEPT ![i].pc = "write", ![i].raw = rd.raw]
               /\ UNCHANGED <<ops, last>>
    /\ UNCHANGED <<port, servers, clients, saved, file, backups, now>>

\* the change of the blob read and its WriteClientConfig
TogWrite(i) ==
    /\ inflight[i].pc = "write"
    /\ LET c == ConcurrentClient
           raw == SetEntry(Registry, inflight[i].raw, inflight[i].s, inflight[i].e)
           wr == WriteClientConfig(clients[c].configPath, file[c], backups[c], now, raw, "ok")
       IN /\ file' = [file EXCEPT ![c] = wr.file]
          /\ backups' = [backups EXCEPT ![c] = wr.backups]
          /\ Return(i, wr.res)
    /\ UNCHANGED <<port, servers, clients, saved, now>>

ConcurrentNext ==
    \/ \E i \in DOMAIN inflight : TogBegin(i)
    \/ \E i \in DOMAIN inflight : TogMutate(i)
    \/ \E i \in DOMAIN inflight : TogSave(i)
    \/ \E i \in DOMAIN inflight : TogRead(i)
    \/ \E i \in DOMAIN inflight : TogWrite(i)

ConcurrentSpec == ConcurrentInit /\ [][ConcurrentNext]_vars

(***************************************************************************)
(* The validators on their own: the initial states draw a server           *)
(* definition and a registry around it, one step applies a validator and   *)
(* records its verdict in last.                                            *)
(***************************************************************************)
\* a field the config does not have
Absent == [t |-> "absent"]

\* the config with the given values for its five inspected fields
ProbeConfig(command, url, httpUrl, timeout, env) ==
    LET all == ("command" :> command @@ "url" :> url @@ "httpUrl" :> httpUrl
                @@ "timeout" :> timeout @@ "env" :> env)
    IN [k \in {x \in DOMAIN all : all[x] # Absent} |-> all[k]]

ProbeCommands == {Absent, Str(" "), IntV(FALSE, 5), Str("echo"), Str("nope")}
ProbeUrls == {Absent, Null, Str("https://x"), Str("ftp://x")}
ProbeHttpUrls == {Absent, Str(""), Str("https://x"), Str("https://")}
\* timeouts as YAML decodes them (int) and as JSON decodes them (float64)
ProbeTimeouts == {Absent, IntV(FALSE, -1), FloatV(FALSE, -1), IntV(FALSE, 30), Str("soon")}
ProbeEnvs == {Absent, Obj("K" :> Str("v")), Obj(" " :> Str("v")), Obj("A=B" :> Str("v")),
              Obj("K" :> Str(" "))}
ProbeConfigs ==
    {ProbeConfig(c, u, h, t, e) : c \in ProbeCommands, u \in ProbeUrls, h \in ProbeHttpUrls,
                                  t \in ProbeTimeouts, e \in ProbeEnvs}
ProbeNames == {"s1", " "}

ProbeClient(path, en) == [configPath |-> path, enabled |-> en]
CleanClients == ("c1" :> ProbeClient("/c1.json", <<"s1">>) @@ "c2" :> ProbeClient("/c2.json", <<>>))
\* client maps: clean, a dangling name after a known one, a dangling name
\* beside a client without a path, two clients with dangling names, none
ProbeClients ==
    {CleanClients,
     ("c1" :> ProbeClient("/c1.json", <<"s1", "sx">>) @@ "c2" :> ProbeClient("/c2.json", <<>>)),
     ("c1" :> ProbeClient("/c1.json", <<"sx">>) @@ "c2" :> ProbeClient("", <<>>)),
     ("c1" :> ProbeClient("/c1.json", <<"sx">>) @@ "c2" :> ProbeClient("/c2.json", <<"sy", "s1">>)),
     [c \in {} |-> ProbeClient("", <<>>)]}
ProbePorts == {6543, 70000}

\* every server definition in a clean registry, and two definitions in every
\* registry around them
ProbeScenarios ==
    (ProbeNames \X ProbeConfigs \X {CleanClients} \X {6543})
    \cup ({"s1"} \X {CfgEcho, CfgNoCmd} \X ProbeClients \X ProbePorts)

ValidatorInit ==
    /\ \E sc \in ProbeScenarios :
          /\ servers = (sc[1] :> sc[2])
          /\ clients = sc[3]
          /\ port = sc[4]
    /\ saved = NotSaved
    /\ file = [c \in ClientNames |-> Missing]
    /\ backups = [c \in ClientNames |-> [t \in 0..MaxTime |-> Missing]]
    /\ now = 0
    /\ ops = 0
    /\ last = Call("init", "", "", FALSE, "ok")
    /\ inflight = NoCalls

\* a call of ValidateMCPServerConfig on a server of the registry; the verdict
\* of detectTransportType is recorded beside it
CallValidateMCPServerConfig ==
    /\ ops = 0
    /\ ops' = 1
    /\ \E s \in DOMAIN servers :
          last' = [op |-> "validate_server", c |-> "", s |-> s, e |-> FALSE,
                   res |-> ValidateMCPServerConfig(s, servers[s]),
                   transport |-> detectTransportType(servers[s])]
    /\ UNCHANGED <<port, servers, clients, saved, file, backups, now, inflight>>

\* a call of ValidateConfig on the registry, for each order of its range
\* over the clients
CallValidateConfig ==
    /\ ops = 0
    /\ ops' = 1
    /\ \E co \in Orders(DOMAIN clients) :
          last' = [op |-> "validate_config", c |-> "", s |-> "", e |-> FALSE,
                   res |-> ValidateConfigIn(Registry, co).err,
                   detail |-> ValidateConfigIn(Registry, co)]
    /\ UNCHANGED <<port, servers, clients, saved, file, backups, now, inflight>>

ValidatorNext == CallValidateMCPServerConfig \/ CallValidateConfig

ValidatorSpec == ValidatorInit /\ [][ValidatorNext]_vars

(***************************************************************************)
(* Properties                                                              *)
(***************************************************************************)
IsEnabled(c, s) == \E i \in DOMAIN clients[c].enabled : clients[c].enabled[i] = s

\* the file is a JSON object whose mcpServers value is an object
HasSection(f) ==
    /\ f.k = "json"
    /\ f.v.t = "obj"
    /\ "mcpServers" \in DOMAIN f.v.o
    /\ f.v.o["mcpServers"].t = "obj"

\* the entries of the mcpServers section as they stand in the file
Section(f) == f.v.o["mcpServers"].o

\* this step is a call of op that returned res
Returned(op, res) == ops' = ops + 1 /\ last'.op = op /\ last'.res = res

\* C1: after a successful ToggleClientMCPServer(c, s, e), s is in c's enabled
\* list exactly when e, the key s is in the mcpServers section of c's file
\* exactly when e and then holds the registry's config for s, and
\* GetMCPServerStatus(c, s) returns e.
C1_ToggleProjects ==
    (last.op = "toggle" /\ last.res = "ok") =>
        LET c == last.c
            s == last.s
            st == GetMCPServerStatus(file[c])
        IN /\ IsEnabled(c, s) <=> last.e
           /\ HasSection(file[c])
           /\ (s \in DOMAIN Section(file[c])) <=> last.e
           /\ last.e => Section(file[c])[s] = Marshal(Obj(servers[s]))
           /\ st.res = "ok"
           /\ (s \in st.names) <=> last.e

\* an enable that replaced an existing file has succeeded
C1_Witness ==
    /\ last.op = "toggle" /\ last.res = "ok" /\ last.e
    /\ \E t \in 0..MaxTime : backups[last.c][t] # Missing

\* C2: across any successful update of a client file that parses as a JSON
\* object, every top-level key other than mcpServers stays in the file with
\* the value it had.
C2_ForeignKeysKept ==
    [][\A c \in ClientNames :
          (/\ \/ Returned("toggle", "ok") /\ last'.c = c
              \/ Returned("sync", "ok")
           /\ file[c].k = "json"
           /\ file[c].v.t = "obj")
          => /\ file'[c].k = "json"
             /\ file'[c].v.t = "obj"
             /\ \A k \in DOMAIN file[c].v.o \ {"mcpServers"} :
                   /\ k \in DOMAIN file'[c].v.o
                   /\ file'[c].v.o[k] = file[c].v.o[k]]_vars

\* C3: after a successful enable of s for c, reading c's file back yields an
\* mcpServers[s] that has every key of the registry's config for s with the
\* same value.
C3_EnableCopiesEveryField ==
    (last.op = "toggle" /\ last.res = "ok" /\ last.e) =>
        LET rd == ReadClientConfig(file[last.c], "ok") IN
        /\ rd.res = "ok"
        /\ rd.raw["mcpServers"].t = "obj"
        /\ last.s \in DOMAIN rd.raw["mcpServers"].o
        /\ rd.raw["mcpServers"].o[last.s].t = "obj"
        /\ \A k \in DOMAIN servers[last.s] :
              /\ k \in DOMAIN rd.raw["mcpServers"].o[last.s].o
              /\ SameValue(rd.raw["mcpServers"].o[last.s].o[k], servers[last.s][k])

\* C4: a write that modifies an existing client file has first copied the
\* file's bytes to the backup named by the current second; a write to a path
\* without a file creates no backup.
C4_BackupBeforeOverwrite ==
    [][\A c \in ClientNames :
          (ops' = ops + 1 /\ last'.op = "toggle" /\ last'.c = c) =>
             /\ (file[c].k # "missing" /\ (last'.res = "ok" \/ file'[c] # file[c]))
                   => backups'[c][now] = file[c]
             /\ file[c].k = "missing" => backups'[c] = backups[c]]_vars

\* a toggle has replaced an existing file by different bytes
C4_Witness ==
    /\ last.op = "toggle" /\ last.res = "ok"
    /\ backups[last.c][now] # Missing
    /\ backups[last.c][now] # file[last.c]

\* C5: a backup, once written, is never deleted or overwritten, and whatever
\* content an operation replaced in a client file is still held by some backup.
C5_BackupsNeverLost ==
    [][\A c \in ClientNames :
          /\ \A t \in 0..MaxTime :
                backups[c][t] # Missing => backups'[c][t] = backups[c][t]
          /\ (file[c].k # "missing" /\ file'[c] # file[c])
                => \E t \in 0..MaxTime : backups'[c][t] = file[c]]_vars

\* C6: when the copy to the backup fails, the write returns an error and the
\* client file keeps its content.
C6_BackupFailureAborts ==
    [][Returned("toggle", "backup_error") => file' = file /\ backups' = backups]_vars

\* a toggle met a failing backup copy of an existing file
C6_Witness ==
    /\ last.op = "toggle" /\ last.res = "backup_error"
    /\ file[last.c].k # "missing"

RefIntegrity ==
    \A c \in DOMAIN clients : \A i \in DOMAIN clients[c].enabled :
        clients[c].enabled[i] \in DOMAIN servers

\* C8: once every enabled name refers to a server of the registry, it stays
\* so across AddServer and ToggleClientMCPServer, failed or not.
C8_RefIntegrityKept == [][RefIntegrity => RefIntegrity']_vars

\* a toggle of a server the registry lacks was refused, lists intact
C8_Witness ==
    /\ last.op = "toggle" /\ last.res = "server_not_found"
    /\ RefIntegrity

NoDuplicates ==
    \A c \in DOMAIN clients : \A i, j \in DOMAIN clients[c].enabled :
        clients[c].enabled[i] = clients[c].enabled[j] => i = j

\* C9: enabled lists without duplicates stay without duplicates across
\* ToggleClientMCPServer; enabling an enabled server leaves it there once.
C9_NoDuplicatesKept == [][NoDuplicates => NoDuplicates']_vars

\* a server was enabled again: the write replaced an identical projection
C9_Witness ==
    /\ last.op = "toggle" /\ last.res = "ok" /\ last.e
    /\ ops = MaxOps
    /\ backups[last.c][now] = file[last.c]
    /\ Len(clients[last.c].enabled) = 1

\* C10: after a successful SyncAllClients, for every client c and server s of
\* the registry, s is a key of mcpServers in c's file exactly when s is in
\* c's enabled list, and then holds the registry's config for s.
C10_SyncProjects ==
    (last.op = "sync" /\ last.res = "ok") =>
        \A c \in DOMAIN clients :
            /\ HasSection(file[c])
            /\ \A s \in DOMAIN servers :
                  /\ (s \in DOMAIN Section(file[c])) <=> IsEnabled(c, s)
                  /\ IsEnabled(c, s) => Section(file[c])[s] = Marshal(Obj(servers[s]))

\* a sync has both written an enabled server and removed a stale entry
C10_Witness ==
    /\ last.op = "sync" /\ last.res = "ok"
    /\ \E c \in DOMAIN clients : \E s \in DOMAIN servers : IsEnabled(c, s)
    /\ \E c \in DOMAIN clients : \E t \in 0..MaxTime :
          /\ backups[c][t] # Missing
          /\ HasSection(backups[c][t])
          /\ \E s \in DOMAIN servers :
                s \in DOMAIN Section(backups[c][t]) /\ ~IsEnabled(c, s)

\* this step is an add that returned an error
AddFailed == ops' = ops + 1 /\ last'.op = "add" /\ last'.res # "ok"

\* C11: whenever AddServer returns an error, a failure of whole-registry
\* validation or of persistence included, the in-memory registry is the one
\* it was before the call: the new server is not in it.
C11_FailedAddLeavesRegistry == [][AddFailed => servers' = servers]_vars

\* C12: AddServer with a name already in the registry returns the
\* duplicate-name error whatever config is supplied, and the in-memory and the
\* persisted registry are unchanged.
C12_DuplicateNameFirst ==
    [][(ops' = ops + 1 /\ last'.op = "add" /\ last'.s \in DOMAIN servers)
          => /\ last'.res = "duplicate_name"
             /\ servers' = servers
             /\ saved' = saved]_vars

\* C13: AddServer with a config that fails ValidateMCPServerConfig returns an
\* error and adds the server neither to the in-memory registry nor to the
\* persisted one.
C13_InvalidServerNotAdded ==
    [][(ops' = ops + 1 /\ last'.op = "add")
          => \A call \in AddCalls :
                (/\ ValidateMCPServerConfig(call[1], call[2]) # "ok"
                 /\ AddServer(call[1], call[2], call[3]))
                => /\ last'.res = "server_validation_failed"
                   /\ servers' = servers
                   /\ saved' = saved]_vars

\* an add of a new name with a command that is not on the search path was
\* refused
C13_Witness ==
    /\ last.op = "add" /\ last.res = "server_validation_failed"
    /\ TrimSpace(last.s) # ""
    /\ last.s \notin DOMAIN servers

\* C14: after a successful AddServer the registry read back from the
\* persisted file lists the servers that existed in the order they had,
\* followed by the new server.
C14_AddAppends ==
    [][Returned("add", "ok")
          => YamlKeyOrder(saved'.servers) = Append(YamlKeyOrder(servers), last'.s)]_vars

\* C15: ToggleClientMCPServer with an unknown client returns client-not-found
\* (also when the server is unknown too), with a known client and an unknown
\* server it returns server-not-found, and in both cases no enabled list, no
\* persisted registry and no client file changes.
C15_UnknownNamesRefused ==
    [][(ops' = ops + 1 /\ last'.op = "toggle")
          => /\ last'.c \notin DOMAIN clients
                   => /\ last'.res = "client_not_found"
                      /\ UNCHANGED <<clients, saved, file, backups>>
             /\ (last'.c \in DOMAIN clients /\ last'.s \notin DOMAIN servers)
                   => /\ last'.res = "server_not_found"
                      /\ UNCHANGED <<clients, saved, file, backups>>]_vars

\* a toggle naming an unknown client and an unknown server was refused for
\* the client
C15_Witness ==
    /\ last.op = "toggle" /\ last.res = "client_not_found"
    /\ last.c \notin DOMAIN clients
    /\ last.s \notin DOMAIN servers

\* the entries of the mcpServers section of a file, none when it has no such
\* section
SectionEntries(f) == IF HasSection(f) THEN Section(f) ELSE EmptyMap

\* results of a toggle that never reached the update or met an injected fault
NotTheUpdate == {"server_not_found", "validation_failed", "save_error", "read_error",
                 "backup_error", "mkdir_error", "write_error"}

\* C16: a disable of s for c when c's blob can be read and s is no key of its
\* mcpServers succeeds, leaves the section with the entries it had, and
\* GetMCPServerStatus(c, s) then returns false.
C16_DisableAbsentIsNoOp ==
    [][\A c \in ClientNames :
          (/\ ops' = ops + 1 /\ last'.op = "toggle" /\ last'.c = c /\ ~last'.e
           /\ last'.res \notin NotTheUpdate
           /\ ReadClientConfig(file[c], "ok").res = "ok"
           /\ last'.s \notin DOMAIN SectionEntries(file[c]))
          => /\ last'.res = "ok"
             /\ SectionEntries(file'[c]) = SectionEntries(file[c])
             /\ GetMCPServerStatus(file'[c]).res = "ok"
             /\ last'.s \notin GetMCPServerStatus(file'[c]).names]_vars

\* C17: a successful SyncAllClients that follows a successful SyncAllClients,
\* the registry unchanged in between, leaves every client's file as the first
\* run left it.
C17_SyncIdempotent ==
    [][(last.op = "sync" /\ last.res = "ok" /\ Returned("sync", "ok")) => file' = file]_vars

\* C18: a client file written by a successful toggle holds only mcpServers
\* entries that pass ValidateClientConfig: a blob with an entry that has no
\* transport field, or more than one, is not written.
C18_WrittenBlobIsValid ==
    (last.op = "toggle" /\ last.res = "ok") =>
        LET rd == ReadClientConfig(file[last.c], "ok") IN
        /\ rd.res = "ok"
        /\ rd.raw["mcpServers"].t = "obj"
        /\ ValidateClientConfig(rd.raw["mcpServers"].o) = "ok"

\* C19: whatever a client's file holds, a call that reads or updates it
\* returns a result or an error; it never aborts in a panic.
C19_NoPanic == last.res # "panic"

\* C20: for a file that parses as a JSON object without an mcpServers key, or
\* with an mcpServers value that is not an object, ReadClientConfig returns a
\* blob whose mcpServers is the empty mapping.
C20_ReadInitialisesSection ==
    \A c \in ClientNames :
        (file[c].k = "json" /\ file[c].v.t = "obj" /\ ~HasSection(file[c]))
            => LET rd == ReadClientConfig(file[c], "ok") IN
               /\ rd.res = "ok"
               /\ rd.raw["mcpServers"] = Obj(EmptyMap)

\* the transport fields of a config that hold a string with something
\* besides white space in it
TransportFields(config) ==
    {k \in {"command", "url", "httpUrl"} :
        k \in DOMAIN config /\ config[k].t = "str" /\ config[k].s \notin {"", " "}}

\* C21: validation of a server config succeeds only if exactly one of
\* command, url and httpUrl is a non-blank string; with none the transport
\* check reports no-transport, with two or three it reports that count.
C21_ExactlyOneTransport ==
    last.op = "validate_server" =>
        LET config == servers[last.s]
            n == Cardinality(TransportFields(config))
        IN /\ last.res = "ok" => n = 1
           /\ n = 1 => last.transport.err = "ok"
           /\ n = 0 => last.transport = [err |-> "no_transport"]
           /\ n > 1 => last.transport = [err |-> "multiple_transports", count |-> n]
           /\ (n # 1 /\ TrimSpace(last.s) # "") => last.res = last.transport.err

\* a config with all three keys, two of them non-blank strings, was refused
\* for its two transports
C21_Witness ==
    /\ last.op = "validate_server"
    /\ {"command", "url", "httpUrl"} \subseteq DOMAIN servers[last.s]
    /\ last.res = "multiple_transports"
    /\ last.transport.count = 2

\* some enabled name of some client is no server of the registry
Dangling(reg) ==
    \E c \in DOMAIN reg.clients : \E i \in DOMAIN reg.clients[c].enabled :
        reg.clients[c].enabled[i] \notin DOMAIN reg.servers

\* the error of a whole-registry validation names a client and a name of
\* its enabled list that the registry lacks
NamesDangling(detail, reg) ==
    /\ detail.err = "dangling_reference"
    /\ detail.client \in DOMAIN reg.clients
    /\ \E i \in DOMAIN reg.clients[detail.client].enabled :
          reg.clients[detail.client].enabled[i] = detail.server
    /\ detail.server \notin DOMAIN reg.servers

EarlierChecksPass(reg) ==
    /\ reg.port \in 1..65535
    /\ \A s \in DOMAIN reg.servers : ValidateMCPServerConfig(s, reg.servers[s]) = "ok"
    /\ \A c \in DOMAIN reg.clients : ValidateClient(c, reg.clients[c]) = "ok"

NegativeTimeout(config) ==
    /\ "timeout" \in DOMAIN config
    /\ config["timeout"].t \in {"int", "float"}
    /\ ~config["timeout"].big
    /\ config["timeout"].n < 0

\* C23: a config whose name and transport pass and whose timeout is a number
\* below zero, integer or floating point, is refused with negative-timeout.
C23_NegativeTimeoutRefused ==
    (/\ last.op = "validate_server"
     /\ NegativeTimeout(servers[last.s])
     /\ TrimSpace(last.s) # ""
     /\ last.transport.err = "ok"
     /\ validateTransportValue(last.transport.key, last.transport.value) = "ok")
    => last.res = "negative_timeout"

\* the rules a server definition violates; the transport check applies to
\* a definition with exactly one transport
ViolatedRules(name, config) ==
    LET fields == TransportFields(config)
        key == CHOOSE k \in fields : TRUE
        value == TrimSpace(config[key].s)
        checkFails == /\ Cardinality(fields) = 1
                      /\ IF key = "command" THEN value \notin PathCommands
                         ELSE validateURL(value) # "ok"
    IN {r \in {"name", "transport_count", "transport_check", "timeout", "env"} :
          \/ r = "name" /\ name \in {"", " "}
          \/ r = "transport_count" /\ Cardinality(fields) # 1
          \/ r = "transport_check" /\ checkFails
          \/ r = "timeout" /\ NegativeTimeout(config)
          \/ r = "env" /\ validateEnvironmentVariables(config) # "ok"}

RuleOrder == <<"name", "transport_count", "transport_check", "timeout", "env">>

\* the first of the violated rules in the fixed order
FirstViolated(name, config) ==
    LET V == ViolatedRules(name, config)
        i == CHOOSE n \in 1..5 : RuleOrder[n] \in V /\ \A m \in 1..(n - 1) : RuleOrder[m] \notin V
    IN RuleOrder[i]

\* the rule an error of ValidateMCPServerConfig belongs to
RuleOf(err) ==
    CASE err = "ok" -> "ok"
      [] err = "empty_name" -> "name"
      [] err \in {"no_transport", "multiple_transports"} -> "transport_count"
      [] err \in {"command_not_found", "url_missing_scheme", "url_missing_host",
                  "url_bad_scheme"} -> "transport_check"
      [] err = "negative_timeout" -> "timeout"
      [] OTHER -> "env"

\* C24: for a definition that violates several rules, ValidateMCPServerConfig
\* reports the error of the first violated one in the order name, transport
\* count, transport check, timeout, env.
C24_FirstRuleReported ==
    (last.op = "validate_server" /\ Cardinality(ViolatedRules(last.s, servers[last.s])) > 1)
        => RuleOf(last.res) = FirstViolated(last.s, servers[last.s])

\* the enabled lists cl and the files f agree on every server of sv
AgreeIn(cl, sv, f) ==
    \A c \in DOMAIN cl : \A s \in DOMAIN sv :
        (\E i \in DOMAIN cl[c].enabled : cl[c].enabled[i] = s)
            <=> s \in DOMAIN SectionEntries(f[c])

\* C25: when every client's file agrees with its enabled list, it still does
\* after a ToggleClientMCPServer call, whether the call succeeds or fails at
\* any of its steps.
C25_ToggleKeepsAgreement ==
    [][(AgreeIn(clients, servers, file) /\ ops' = ops + 1 /\ last'.op = "toggle")
          => AgreeIn(clients', servers', file')]_vars

\* C26: when two overlapping ToggleClientMCPServer calls for one client and
\* two different servers have both returned success, the client's file
\* reflects both: each call's server is a key of mcpServers exactly when the
\* call enabled it.
C26_NoLostUpdate ==
    (/\ inflight # NoCalls
     /\ \A i \in DOMAIN inflight : inflight[i].pc = "done" /\ inflight[i].res = "ok")
       => \A i \in DOMAIN inflight :
             inflight[i].s \in DOMAIN SectionEntries(file[ConcurrentClient]) <=> inflight[i].e

\* C27: when whole-registry validation or the save fails in
\* ToggleClientMCPServer, the call returns that error, the client's file is
\* neither backed up nor rewritten, and the enabled list keeps the mutation.
C27_FailedSaveKeepsMutation ==
    [][(/\ ops' = ops + 1 /\ last'.op = "toggle"
        /\ last'.c \in DOMAIN clients /\ last'.s \in DOMAIN servers)
          => /\ ValidateConfig([port |-> port', servers |-> servers', clients |-> clients'])
                   # "ok" => last'.res = "validation_failed"
             /\ last'.res \in {"validation_failed", "save_error"}
                   => /\ file' = file
                      /\ backups' = backups
                      /\ saved' = saved
                      /\ (\E i \in DOMAIN clients'[last'.c].enabled :
                              clients'[last'.c].enabled[i] = last'.s) <=> last'.e]_vars

\* an enable failed at the save: the name is in the list, the existing file
\* has neither the entry nor a backup
C27_Witness ==
    /\ last.op = "toggle" /\ last.res = "save_error" /\ last.e
    /\ IsEnabled(last.c, last.s)
    /\ file[last.c].k = "json"
    /\ last.s \notin DOMAIN SectionEntries(file[last.c])
    /\ \A t \in 0..MaxTime : backups[last.c][t] = Missing

C29_SyncFullyReconciles ==
    (last.op = "sync" /\ last.res = "ok") =>
        \A c \in DOMAIN clients :
            /\ HasSection(file[c])
            /\ DOMAIN Section(file[c])
                  = {clients[c].enabled[i] : i \in DOMAIN clients[c].enabled}

\* C30: an update of a client whose file exists and is not JSON returns a
\* parse error, creates no backup and leaves the file untouched.
C30_MalformedFileUntouched ==
    [][\A c \in ClientNames :
          (/\ ops' = ops + 1 /\ last'.op = "toggle" /\ last'.c = c
           /\ last'.res \notin NotTheUpdate
           /\ file[c] = Garbage)
          => /\ last'.res = "parse_error"
             /\ file' = file
             /\ backups' = backups]_vars

\* a toggle met an unparseable file
C30_Witness ==
    /\ last.op = "toggle" /\ last.res = "parse_error"
    /\ file[last.c] = Garbage

====
